---- MODULE Spec2Model ----
(***************************************************************************)
(* Model of src/controllers/api.ts of rgb-proxy-server: the JSON-RPC       *)
(* method table and the legacy REST routes over one nedb datastore, the    *)
(* multer staging directory and the two committed-blob directories.        *)
(*                                                                         *)
(* Node runs every handler on one thread, so a handler is atomic between   *)
(* two awaits.  Each action below is one such segment: the continuation    *)
(* of the previous await up to and including the datastore operation of    *)
(* the next await.  Requests interleave at these points only.              *)
(***************************************************************************)
EXTENDS Integers, Sequences, FiniteSets, TLC

\* ------------------------------------------------------------------ bounds
\* Requests that can be in flight at the same time.
MaxReqs == 2
\* Documents the datastore can hold (uploads are refused at the door beyond it).
MaxDocs == 2
\* Names multer can hand out for staged files.
MaxTmp == 2

\* ------------------------------------------------------------- JS values
Undefined == "undefined"
JsTrue == "true"
JsFalse == "false"
\* A parameter that is not in the params dictionary / request body.
Absent == "<absent>"
\* A parameter that is present but is not a string (a number, say).
NonString == "<non-string>"
EmptyString == ""

\* The keys the clients upload and acknowledge under, and a key they only ask for.
Keys == {"k1"}
OtherKeys == {"k2"}
\* Payloads, as byte sequences ("h", "hi").
Contents == {<<104>>, <<104, 105>>}
NoFile == 0
TmpNames == 1..MaxTmp
Slots == 1..MaxReqs

RpcUploadOps == {"consignment.post", "media.post"}
RestUploadOps == {"POST /consignment", "POST /media"}
UploadOps == RpcUploadOps \cup RestUploadOps
RpcOps == {"consignment.get", "media.get", "ack.get", "ack.post"} \cup RpcUploadOps
RestOps == {"GET /consignment", "GET /media", "GET /ack", "POST /ack", "POST /nack",
            "GET /getinfo"}
             \cup RestUploadOps
Ops == RpcOps \cup RestOps

VARIABLES
  ds,              \* the nedb datastore: its documents in candidate (_id) order
  tempDir,         \* staged files: multer name -> bytes
  consignmentDir,  \* committed consignment blobs: file name -> bytes
  mediaDir,        \* committed media blobs: file name -> bytes
  req,             \* the request handled in each slot, and where its handler is
  response         \* the response sent by the latest step, if it sent one

vars == <<ds, tempDir, consignmentDir, mediaDir, req, response>>

\* ------------------------------------------------------------- util, fs
\* genHashFromFile (src/util): a digest of the file's bytes.
RECURSIVE Digest(_, _)
Digest(bytes, h) ==
  IF bytes = <<>> THEN h
  ELSE Digest(Tail(bytes), (h * 31 + Head(bytes) + 1) % 65521)

genHashFromFile(bytes) == Digest(bytes, 7)

\* Buffer.toString("base64"): 3 bytes -> 4 sextets, "=" (here 64) as padding.
Pad == 64

RECURSIVE toBase64(_)
toBase64(b) ==
  IF Len(b) = 0 THEN <<>>
  ELSE IF Len(b) = 1 THEN
    <<b[1] \div 4, (b[1] % 4) * 16, Pad, Pad>>
  ELSE IF Len(b) = 2 THEN
    <<b[1] \div 4, (b[1] % 4) * 16 + (b[2] \div 16), (b[2] % 16) * 4, Pad>>
  ELSE
    <<b[1] \div 4, (b[1] % 4) * 16 + (b[2] \div 16),
      (b[2] % 16) * 4 + (b[3] \div 64), b[3] % 64>>
      \o toBase64(SubSeq(b, 4, Len(b)))

\* fs.existsSync / fs.unlinkSync / fs.renameSync on a directory held as a function.
existsSync(dir, name) == name \in DOMAIN dir

unlinkSync(dir, name) == [n \in DOMAIN dir \ {name} |-> dir[n]]

WriteFile(dir, name, bytes) ==
  [n \in DOMAIN dir \cup {name} |-> IF n = name THEN bytes ELSE dir[n]]

EmptyDir == [n \in {} |-> <<>>]

\* ------------------------------------------------------------- datastore
Consignment(fileHash, blindedUTXO) ==
  [filename |-> fileHash, blindedutxo |-> blindedUTXO, attachment_id |-> Undefined,
   ack |-> Undefined, nack |-> Undefined, responded |-> Undefined]

Media(fileHash, attachmentID) ==
  [filename |-> fileHash, blindedutxo |-> Undefined, attachment_id |-> attachmentID,
   ack |-> Undefined, nack |-> Undefined, responded |-> Undefined]

Matches(store, field, k) == {i \in 1..Len(store) : store[i][field] = k}

Min(S) == CHOOSE x \in S : \A y \in S : x <= y

\* ds.findOne({field: k}): the first matching document, or null (here <<>>).
findOne(store, field, k) ==
  IF Matches(store, field, k) = {} THEN <<>>
  ELSE <<store[Min(Matches(store, field, k))]>>

\* ds.insert(doc): nedb gives the document a random _id, and candidates are
\* listed in _id order, so the document can land anywhere in that order.
insert(store, doc) ==
  {SubSeq(store, 1, i) \o <<doc>> \o SubSeq(store, i + 1, Len(store)) :
     i \in 0..Len(store)}

\* ds.update({field: k}, {$set: ...}, {multi: false}) for the three fields the
\* code sets; Keep stands for a field the $set leaves out.
Keep == "<keep>"

SetField(old, new) == IF new = Keep THEN old ELSE new

\* An update whose query matches the key in either namespace.
update_AnyNamespace(store, field, k, ack, nack, responded) ==
  IF Matches(store, "blindedutxo", k) \cup Matches(store, "attachment_id", k) = {}
  THEN store
  ELSE [store EXCEPT
          ![Min(Matches(store, "blindedutxo", k) \cup Matches(store, "attachment_id", k))] =
             [@ EXCEPT !.ack = SetField(@, ack),
                       !.nack = SetField(@, nack),
                       !.responded = SetField(@, responded)]]

update(store, field, k, ack, nack, responded) ==
  IF Matches(store, field, k) = {} THEN store
  ELSE [store EXCEPT ![Min(Matches(store, field, k))] =
          [@ EXCEPT !.ack = SetField(@, ack),
                    !.nack = SetField(@, nack),
                    !.responded = SetField(@, responded)]]

\* ------------------------------------------------------------- requests
Idle ==
  [pc |-> "idle", op |-> "", key |-> Absent, ack |-> Absent, file |-> NoFile,
   fileHash |-> 0, prev |-> <<>>]

NoResponse ==
  [slot |-> 0, op |-> "", key |-> Absent, param |-> Absent, file |-> NoFile,
   status |-> 0, error |-> "", result |-> "", data |-> <<>>, success |-> "",
   ack |-> "", nack |-> ""]

\* The response to request q of slot r, before its status and body are set.
Reply(r, q) ==
  [NoResponse EXCEPT !.slot = r, !.op = q.op, !.key = q.key, !.param = q.ack,
                     !.file = q.file]

\* A JSON-RPC response carrying a result (res.json, HTTP 200).
RpcResult(r, q, value) == [Reply(r, q) EXCEPT !.status = 200, !.result = value]

\* A JSON-RPC response whose result is a base64 string.
RpcData(r, q, bytes) == [Reply(r, q) EXCEPT !.status = 200, !.result = "string", !.data = bytes]

\* A JSON-RPC response carrying an error object.
RpcError(r, q, name) == [Reply(r, q) EXCEPT !.status = 200, !.error = name]

\* A REST response: res.status(code).send({success, error?}).
Rest(r, q, code, ok, message) ==
  [Reply(r, q) EXCEPT !.status = code, !.success = ok, !.error = message]

\* What a handler keeps of the document it read: the document is kept whole in
\* the code, and only the fields the handler reads afterwards are kept here.
NotRead == "-"

Only(found, fields) ==
  IF found = <<>> THEN <<>>
  ELSE <<[f \in DOMAIN found[1] |-> IF f \in fields THEN found[1][f] ELSE NotRead]>>

Init ==
  /\ ds = <<>>
  /\ tempDir = EmptyDir
  /\ consignmentDir = EmptyDir
  /\ mediaDir = EmptyDir
  /\ req = [r \in Slots |-> Idle]
  /\ response = NoResponse

\* ------------------------------------------------- parameter validation
\* getBlindedUTXOParam without its first check: a missing blinded_utxo passes.
getBlindedUTXOParam_NoMissingCheck(blindedUTXO) ==
  IF blindedUTXO = NonString \/ blindedUTXO = EmptyString
  THEN "InvalidBlindedUTXO" ELSE ""

\* The error getBlindedUTXOParam throws for this blinded_utxo, "" when it returns.
getBlindedUTXOParam(blindedUTXO) ==
  IF blindedUTXO = Absent THEN "MissingBlindedUTXO"
  ELSE IF blindedUTXO = EmptyString \/ blindedUTXO = NonString THEN "InvalidBlindedUTXO"
  ELSE ""

\* The error getAttachmentIDParam throws for this attachment_id, "" when it returns.
getAttachmentIDParam(attachmentID) ==
  IF attachmentID = Absent THEN "MissingAttachmentID"
  ELSE IF attachmentID = EmptyString \/ attachmentID = NonString THEN "InvalidAttachmentID"
  ELSE ""

\* The error getAckParam throws for this ack, "" when it returns.
getAckParam(ack) ==
  IF ack = Absent THEN "MissingAck"
  ELSE IF ack \notin {JsTrue, JsFalse} THEN "InvalidAck"
  ELSE ""

\* ------------------------------------------------------------- arrival
\* What a client can put in the key parameter of a JSON-RPC call, and in the
\* key field of a REST body.
BadRpcKeys == {Absent, EmptyString, NonString}

BadRestKeys == {Absent, EmptyString}

AckParams == {JsTrue, JsFalse, Absent, NonString}

\* The keys a client asks for, and everything it can send as a key.
AskKeys == Keys \cup OtherKeys

RpcKeyParams == AskKeys \cup BadRpcKeys

RestKeyParams == AskKeys \cup BadRestKeys

\* The file part of an upload request: <<>> for none, <<bytes>> for a payload.
NoPart == <<>>

FileParts == {NoPart} \cup {<<c>> : c \in Contents}

\* multer names a staged file at random: never a name that is in tempDir or
\* that a request in flight was given.
FreeTmp == TmpNames \ (DOMAIN tempDir \cup {req[s].file : s \in Slots})

\* Uploads in flight, each of which may still insert a document.
PendingUploads == {s \in Slots : req[s].pc # "idle" /\ req[s].op \in UploadOps}

\* A request can be taken in slot r.
CanAccept(r) ==
  /\ req[r].pc = "idle"
  /\ \A s \in Slots : s < r => req[s].pc # "idle"

\* An upload with this file part can be taken in slot r.
CanAcceptUpload(r, part) ==
  /\ CanAccept(r)
  /\ part # NoPart => FreeTmp # {}
  /\ Len(ds) + Cardinality(PendingUploads) < MaxDocs

\* multer (upload.single): the name the file part is staged under, and the
\* staging directory with it, before the handler runs.
StagedName(part) == IF part = NoPart THEN NoFile ELSE Min(FreeTmp)

Staged(part) ==
  IF part = NoPart THEN tempDir ELSE WriteFile(tempDir, StagedName(part), part[1])

Handling(op, key, ack, file) ==
  [Idle EXCEPT !.op = op, !.key = key, !.ack = ack, !.file = file]

\* ------------------------------------------------------------- /json-rpc
\* The tail of the /json-rpc route, after the response is sent: delete the
\* request's staged file if the method left it behind.
DeleteUnhandled(dir, file) ==
  IF file # NoFile /\ existsSync(dir, file) THEN unlinkSync(dir, file) ELSE dir

\* The catch block of consignment.post and media.post.
CatchUnlink(dir, file) ==
  IF file # NoFile /\ existsSync(dir, file) THEN unlinkSync(dir, file) ELSE dir

\* consignment.post / media.post from the arrival to the first await:
\* validate, hash the staged file, look the key up.
RpcPostBegin(r, op, field, key, paramError, part) ==
  LET q == Handling(op, key, Absent, StagedName(part)) IN
  /\ CanAcceptUpload(r, part)
  /\ IF paramError # "" \/ part = NoPart
     THEN /\ response' = RpcError(r, q, IF paramError # "" THEN paramError
                                        ELSE "MissingFile")
          /\ tempDir' = DeleteUnhandled(CatchUnlink(Staged(part), q.file), q.file)
          /\ req' = req
     ELSE /\ req' = [req EXCEPT ![r] =
                       [q EXCEPT !.pc = "found",
                                 !.fileHash = genHashFromFile(Staged(part)[q.file]),
                                 !.prev = Only(findOne(ds, field, key), {"filename"})]]
          /\ tempDir' = Staged(part)
          /\ response' = NoResponse
  /\ UNCHANGED <<ds, consignmentDir, mediaDir>>

\* The upload without the comparison of the two hashes: any upload under a
\* used key is answered as the no-op.
RpcPostAfterFind_NoHashCheck(r, dir) ==
  LET q == req[r] IN
  IF q.prev # <<>>
  THEN /\ response' = RpcResult(r, q, JsFalse)
       /\ tempDir' = DeleteUnhandled(unlinkSync(tempDir, q.file), q.file)
       /\ req' = [req EXCEPT ![r] = Idle]
       /\ dir' = dir
  ELSE /\ dir' = WriteFile(dir, q.fileHash, tempDir[q.file])
       /\ tempDir' = unlinkSync(tempDir, q.file)
       /\ req' = [req EXCEPT ![r] = [q EXCEPT !.pc = "insert"]]
       /\ response' = NoResponse

\* The upload without the test of the document read: every upload is renamed
\* into the committed directory and inserted.
RpcPostAfterFind_NoLookup(r, dir) ==
  LET q == req[r] IN
  /\ dir' = WriteFile(dir, q.fileHash, tempDir[q.file])
  /\ tempDir' = unlinkSync(tempDir, q.file)
  /\ req' = [req EXCEPT ![r] = [q EXCEPT !.pc = "insert"]]
  /\ response' = NoResponse

\* The upload without the rename: the staged file is left where it is and the
\* document is inserted all the same.
RpcPostAfterFind_NoRename(r, dir) ==
  LET q == req[r] IN
  IF q.prev # <<>>
  THEN /\ IF q.prev[1].filename = q.fileHash
          THEN /\ response' = RpcResult(r, q, JsFalse)
               /\ tempDir' = DeleteUnhandled(unlinkSync(tempDir, q.file), q.file)
          ELSE /\ response' = RpcError(r, q, "CannotChangeUploadedFile")
               /\ tempDir' = DeleteUnhandled(CatchUnlink(tempDir, q.file), q.file)
       /\ req' = [req EXCEPT ![r] = Idle]
       /\ dir' = dir
  ELSE /\ dir' = dir
       /\ tempDir' = tempDir
       /\ req' = [req EXCEPT ![r] = [q EXCEPT !.pc = "insert"]]
       /\ response' = NoResponse

\* After findOne: the no-op, the conflict, or the rename into the committed
\* directory (the insert is awaited next).
RpcPostAfterFind(r, dir) ==
  LET q == req[r] IN
  IF q.prev # <<>>
  THEN /\ IF q.prev[1].filename = q.fileHash
          THEN /\ response' = RpcResult(r, q, JsFalse)
               /\ tempDir' = DeleteUnhandled(unlinkSync(tempDir, q.file), q.file)
          ELSE /\ response' = RpcError(r, q, "CannotChangeUploadedFile")
               /\ tempDir' = DeleteUnhandled(CatchUnlink(tempDir, q.file), q.file)
       /\ req' = [req EXCEPT ![r] = Idle]
       /\ dir' = dir
  ELSE /\ dir' = WriteFile(dir, q.fileHash, tempDir[q.file])
       /\ tempDir' = unlinkSync(tempDir, q.file)
       /\ req' = [req EXCEPT ![r] = [q EXCEPT !.pc = "insert"]]
       /\ response' = NoResponse

\* The insert, and the return true behind it.
RpcPostInsert(r, doc) ==
  /\ ds' \in insert(ds, doc)
  /\ response' = RpcResult(r, req[r], JsTrue)
  /\ tempDir' = DeleteUnhandled(tempDir, req[r].file)
  /\ req' = [req EXCEPT ![r] = Idle]

ConsignmentPostBegin(r, key, part) ==
  RpcPostBegin(r, "consignment.post", "blindedutxo", key, getBlindedUTXOParam(key), part)

ConsignmentPostAfterFind(r) ==
  /\ req[r].op = "consignment.post" /\ req[r].pc = "found"
  /\ RpcPostAfterFind(r, consignmentDir)
  /\ UNCHANGED <<ds, mediaDir>>

ConsignmentPostInsert(r) ==
  /\ req[r].op = "consignment.post" /\ req[r].pc = "insert"
  /\ RpcPostInsert(r, Consignment(req[r].fileHash, req[r].key))
  /\ UNCHANGED <<consignmentDir, mediaDir>>

MediaPostBegin(r, key, part) ==
  RpcPostBegin(r, "media.post", "attachment_id", key, getAttachmentIDParam(key), part)

MediaPostAfterFind(r) ==
  /\ req[r].op = "media.post" /\ req[r].pc = "found"
  /\ RpcPostAfterFind(r, mediaDir)
  /\ UNCHANGED <<ds, consignmentDir>>

MediaPostInsert(r) ==
  /\ req[r].op = "media.post" /\ req[r].pc = "insert"
  /\ RpcPostInsert(r, Media(req[r].fileHash, req[r].key))
  /\ UNCHANGED <<consignmentDir, mediaDir>>

\* A query method from the arrival to its findOne (getConsignment's first
\* half, or media.get's).
RpcGetBegin(r, op, field, key, paramError, read) ==
  LET q == Handling(op, key, Absent, NoFile) IN
  /\ CanAccept(r)
  /\ IF paramError # ""
     THEN /\ response' = RpcError(r, q, paramError)
          /\ req' = req
     ELSE /\ req' = [req EXCEPT ![r] =
                       [q EXCEPT !.pc = "found",
                                 !.prev = Only(findOne(ds, field, key), read)]]
          /\ response' = NoResponse
  /\ UNCHANGED <<ds, tempDir, consignmentDir, mediaDir>>

\* A fetch that takes the blob out of the committed directory as it reads it.
RpcGetAfterFind_Consumes(r, dir, notFound) ==
  LET q == req[r] IN
  /\ response' =
       IF q.prev = <<>> THEN RpcError(r, q, notFound)
       ELSE IF ~existsSync(dir, q.prev[1].filename) THEN RpcError(r, q, "ENOENT")
       ELSE RpcData(r, q, toBase64(dir[q.prev[1].filename]))
  /\ req' = [req EXCEPT ![r] = Idle]
  /\ IF q.prev = <<>> THEN UNCHANGED <<consignmentDir, mediaDir>>
     ELSE IF q.op = "consignment.get"
     THEN /\ consignmentDir' = unlinkSync(consignmentDir, q.prev[1].filename)
          /\ mediaDir' = mediaDir
     ELSE /\ mediaDir' = unlinkSync(mediaDir, q.prev[1].filename)
          /\ consignmentDir' = consignmentDir
  /\ UNCHANGED <<ds, tempDir>>

\* After findOne: not found, or the blob read and base64-encoded
\* (readFileSync throws when the blob is missing).
RpcGetAfterFind(r, dir, notFound) ==
  LET q == req[r] IN
  /\ response' =
       IF q.prev = <<>> THEN RpcError(r, q, notFound)
       ELSE IF ~existsSync(dir, q.prev[1].filename) THEN RpcError(r, q, "ENOENT")
       ELSE RpcData(r, q, toBase64(dir[q.prev[1].filename]))
  /\ req' = [req EXCEPT ![r] = Idle]
  /\ UNCHANGED <<ds, tempDir, consignmentDir, mediaDir>>

ConsignmentGetBegin(r, key) ==
  RpcGetBegin(r, "consignment.get", "blindedutxo", key, getBlindedUTXOParam(key),
              {"filename"})

ConsignmentGetAfterFind(r) ==
  /\ req[r].op = "consignment.get" /\ req[r].pc = "found"
  /\ RpcGetAfterFind(r, consignmentDir, "NotFoundConsignment")

MediaGetBegin(r, key) ==
  RpcGetBegin(r, "media.get", "attachment_id", key, getAttachmentIDParam(key),
              {"filename"})

MediaGetAfterFind(r) ==
  /\ req[r].op = "media.get" /\ req[r].pc = "found"
  /\ RpcGetAfterFind(r, mediaDir, "NotFoundMedia")

AckGetBegin(r, key) ==
  RpcGetBegin(r, "ack.get", "blindedutxo", key, getBlindedUTXOParam(key), {"ack"})

AckGetAfterFind(r) ==
  LET q == req[r] IN
  /\ q.op = "ack.get" /\ q.pc = "found"
  /\ response' = IF q.prev = <<>> THEN RpcError(r, q, "NotFoundConsignment")
                 ELSE RpcResult(r, q, q.prev[1].ack)
  /\ req' = [req EXCEPT ![r] = Idle]
  /\ UNCHANGED <<ds, tempDir, consignmentDir, mediaDir>>

\* ack.post from the arrival to getConsignment's findOne.
AckPostBegin(r, key, ack) ==
  LET q == Handling("ack.post", key, ack, NoFile) IN
  /\ CanAccept(r)
  /\ IF getBlindedUTXOParam(key) # ""
     THEN /\ response' = RpcError(r, q, getBlindedUTXOParam(key))
          /\ req' = req
     ELSE /\ req' = [req EXCEPT ![r] =
                       [q EXCEPT !.pc = "found",
                                 !.prev = Only(findOne(ds, "blindedutxo", key),
                                               {"blindedutxo", "ack"})]]
          /\ response' = NoResponse
  /\ UNCHANGED <<ds, tempDir, consignmentDir, mediaDir>>

\* ack.post without the check of the ack read: every valid call updates.
AckPostAfterFind_NoAckCheck(r) ==
  LET q == req[r] IN
  /\ q.op = "ack.post" /\ q.pc = "found"
  /\ IF q.prev = <<>> THEN
       /\ response' = RpcError(r, q, "NotFoundConsignment")
       /\ req' = [req EXCEPT ![r] = Idle]
     ELSE IF getAckParam(q.ack) # "" THEN
       /\ response' = RpcError(r, q, getAckParam(q.ack))
       /\ req' = [req EXCEPT ![r] = Idle]
     ELSE
       /\ response' = NoResponse
       /\ req' = [req EXCEPT ![r] = [q EXCEPT !.pc = "update"]]
  /\ UNCHANGED <<ds, tempDir, consignmentDir, mediaDir>>

\* ack.post without the comparison of the two values: a decided ack is
\* always answered as unchanged.
AckPostAfterFind_NoConflict(r) ==
  LET q == req[r] IN
  /\ q.op = "ack.post" /\ q.pc = "found"
  /\ IF q.prev = <<>> THEN
       /\ response' = RpcError(r, q, "NotFoundConsignment")
       /\ req' = [req EXCEPT ![r] = Idle]
     ELSE IF getAckParam(q.ack) # "" THEN
       /\ response' = RpcError(r, q, getAckParam(q.ack))
       /\ req' = [req EXCEPT ![r] = Idle]
     ELSE IF q.prev[1].ack # Undefined THEN
       /\ response' = RpcResult(r, q, JsFalse)
       /\ req' = [req EXCEPT ![r] = Idle]
     ELSE
       /\ response' = NoResponse
       /\ req' = [req EXCEPT ![r] = [q EXCEPT !.pc = "update"]]
  /\ UNCHANGED <<ds, tempDir, consignmentDir, mediaDir>>

\* The rest of getConsignment, getAckParam and the check of the ack read.
AckPostAfterFind(r) ==
  LET q == req[r] IN
  /\ q.op = "ack.post" /\ q.pc = "found"
  /\ IF q.prev = <<>> THEN
       /\ response' = RpcError(r, q, "NotFoundConsignment")
       /\ req' = [req EXCEPT ![r] = Idle]
     ELSE IF getAckParam(q.ack) # "" THEN
       /\ response' = RpcError(r, q, getAckParam(q.ack))
       /\ req' = [req EXCEPT ![r] = Idle]
     ELSE IF q.prev[1].ack # Undefined THEN
       /\ response' = IF q.prev[1].ack = q.ack THEN RpcResult(r, q, JsFalse)
                      ELSE RpcError(r, q, "CannotChangeAck")
       /\ req' = [req EXCEPT ![r] = Idle]
     ELSE
       /\ response' = NoResponse
       /\ req' = [req EXCEPT ![r] = [q EXCEPT !.pc = "update"]]
  /\ UNCHANGED <<ds, tempDir, consignmentDir, mediaDir>>

\* The update, and the return true behind it.
AckPostUpdate(r) ==
  LET q == req[r] IN
  /\ q.op = "ack.post" /\ q.pc = "update"
  /\ ds' = update(ds, "blindedutxo", q.prev[1].blindedutxo, q.ack, Keep, Keep)
  /\ response' = RpcResult(r, q, JsTrue)
  /\ req' = [req EXCEPT ![r] = Idle]
  /\ UNCHANGED <<tempDir, consignmentDir, mediaDir>>

\* ------------------------------------------------------------- REST
\* !value of a body field.
Falsy(value) == value = Absent \/ value = EmptyString

\* POST /consignment / POST /media from the arrival to the first await.
RestPostBegin(r, op, field, key, part, keyMissing, fileMissing) ==
  LET q == Handling(op, key, Absent, StagedName(part)) IN
  /\ CanAcceptUpload(r, part)
  /\ IF Falsy(key) THEN
       /\ response' = Rest(r, q, 400, JsFalse, keyMissing)
       /\ req' = req
     ELSE IF part = NoPart THEN
       /\ response' = Rest(r, q, 400, JsFalse, fileMissing)
       /\ req' = req
     ELSE
       /\ req' = [req EXCEPT ![r] =
                    [q EXCEPT !.pc = "found",
                              !.fileHash = genHashFromFile(Staged(part)[q.file]),
                              !.prev = Only(findOne(ds, field, key), {"filename"})]]
       /\ response' = NoResponse
  /\ tempDir' = Staged(part)
  /\ UNCHANGED <<ds, consignmentDir, mediaDir>>

\* The REST upload without the comparison of the two hashes: any upload under
\* a used key is answered 200.
RestPostAfterFind_NoHashCheck(r, dir) ==
  LET q == req[r] IN
  IF q.prev # <<>>
  THEN /\ response' = Rest(r, q, 200, JsTrue, "")
       /\ req' = [req EXCEPT ![r] = Idle]
       /\ UNCHANGED <<tempDir, dir>>
  ELSE IF ~existsSync(tempDir, q.file)
  THEN /\ response' = Rest(r, q, 500, JsFalse, "")
       /\ req' = [req EXCEPT ![r] = Idle]
       /\ UNCHANGED <<tempDir, dir>>
  ELSE /\ dir' = WriteFile(dir, q.fileHash, tempDir[q.file])
       /\ tempDir' = unlinkSync(tempDir, q.file)
       /\ req' = [req EXCEPT ![r] = [q EXCEPT !.pc = "insert"]]
       /\ response' = NoResponse

\* After findOne: 200 for the same file, 403 for another one, or the rename
\* into the committed directory (the insert is awaited next).
RestPostAfterFind(r, dir) ==
  LET q == req[r] IN
  IF q.prev # <<>>
  THEN /\ response' = IF q.prev[1].filename = q.fileHash
                      THEN Rest(r, q, 200, JsTrue, "")
                      ELSE Rest(r, q, 403, JsFalse, "Cannot change uploaded file!")
       /\ req' = [req EXCEPT ![r] = Idle]
       /\ UNCHANGED <<tempDir, dir>>
  ELSE IF ~existsSync(tempDir, q.file)
  THEN /\ response' = Rest(r, q, 500, JsFalse, "")
       /\ req' = [req EXCEPT ![r] = Idle]
       /\ UNCHANGED <<tempDir, dir>>
  ELSE /\ dir' = WriteFile(dir, q.fileHash, tempDir[q.file])
       /\ tempDir' = unlinkSync(tempDir, q.file)
       /\ req' = [req EXCEPT ![r] = [q EXCEPT !.pc = "insert"]]
       /\ response' = NoResponse

\* The insert, the removal of the staged file if it is still there, and 200.
RestPostInsert(r, doc) ==
  /\ ds' \in insert(ds, doc)
  /\ tempDir' = IF existsSync(tempDir, req[r].file)
                THEN unlinkSync(tempDir, req[r].file) ELSE tempDir
  /\ response' = Rest(r, req[r], 200, JsTrue, "")
  /\ req' = [req EXCEPT ![r] = Idle]

RestConsignmentPostBegin(r, key, part) ==
  RestPostBegin(r, "POST /consignment", "blindedutxo", key, part,
                "blindedutxo missing!", "Consignment file is missing!")

RestConsignmentPostAfterFind(r) ==
  /\ req[r].op = "POST /consignment" /\ req[r].pc = "found"
  /\ RestPostAfterFind(r, consignmentDir)
  /\ UNCHANGED <<ds, mediaDir>>

RestConsignmentPostInsert(r) ==
  /\ req[r].op = "POST /consignment" /\ req[r].pc = "insert"
  /\ RestPostInsert(r, Consignment(req[r].fileHash, req[r].key))
  /\ UNCHANGED <<consignmentDir, mediaDir>>

RestMediaPostBegin(r, key, part) ==
  RestPostBegin(r, "POST /media", "attachment_id", key, part,
                "attachment_id missing!", "Media file is missing!")

RestMediaPostAfterFind(r) ==
  /\ req[r].op = "POST /media" /\ req[r].pc = "found"
  /\ RestPostAfterFind(r, mediaDir)
  /\ UNCHANGED <<ds, consignmentDir>>

RestMediaPostInsert(r) ==
  /\ req[r].op = "POST /media" /\ req[r].pc = "insert"
  /\ RestPostInsert(r, Media(req[r].fileHash, req[r].key))
  /\ UNCHANGED <<consignmentDir, mediaDir>>

\* A GET route from the arrival to its findOne.  The key is a segment of the
\* path: the route only matches with a non-empty one.
RestGetBegin(r, op, field, key, read) ==
  LET q == Handling(op, key, Absent, NoFile) IN
  /\ CanAccept(r)
  /\ IF Falsy(key)
     THEN /\ response' = Rest(r, q, 400, JsFalse, field \o " missing!")
          /\ req' = req
     ELSE /\ req' = [req EXCEPT ![r] =
                       [q EXCEPT !.pc = "found",
                                 !.prev = Only(findOne(ds, field, key), read)]]
          /\ response' = NoResponse
  /\ UNCHANGED <<ds, tempDir, consignmentDir, mediaDir>>

\* After findOne: 404, or the blob read and base64-encoded (500 when
\* readFileSync throws).
RestGetAfterFind(r, dir, notFound) ==
  LET q == req[r] IN
  /\ response' =
       IF q.prev = <<>> THEN Rest(r, q, 404, JsFalse, notFound)
       ELSE IF ~existsSync(dir, q.prev[1].filename) THEN Rest(r, q, 500, JsFalse, "")
       ELSE [Rest(r, q, 200, JsTrue, "") EXCEPT
               !.data = toBase64(dir[q.prev[1].filename])]
  /\ req' = [req EXCEPT ![r] = Idle]
  /\ UNCHANGED <<ds, tempDir, consignmentDir, mediaDir>>

RestConsignmentGetBegin(r, key) ==
  RestGetBegin(r, "GET /consignment", "blindedutxo", key, {"filename"})

RestConsignmentGetAfterFind(r) ==
  /\ req[r].op = "GET /consignment" /\ req[r].pc = "found"
  /\ RestGetAfterFind(r, consignmentDir, "No consignment found!")

RestMediaGetBegin(r, key) ==
  RestGetBegin(r, "GET /media", "attachment_id", key, {"filename"})

RestMediaGetAfterFind(r) ==
  /\ req[r].op = "GET /media" /\ req[r].pc = "found"
  /\ RestGetAfterFind(r, mediaDir, "No media found!")

RestAckGetBegin(r, key) ==
  RestGetBegin(r, "GET /ack", "blindedutxo", key, {"ack", "nack"})

\* !!value of a document field.
Truthy(value) == IF value = JsTrue THEN JsTrue ELSE JsFalse

RestAckGetAfterFind(r) ==
  LET q == req[r] IN
  /\ q.op = "GET /ack" /\ q.pc = "found"
  /\ response' =
       IF q.prev = <<>> THEN Rest(r, q, 404, JsFalse, "No consignment found!")
       ELSE [Rest(r, q, 200, JsTrue, "") EXCEPT !.ack = Truthy(q.prev[1].ack),
                                                !.nack = Truthy(q.prev[1].nack)]
  /\ req' = [req EXCEPT ![r] = Idle]
  /\ UNCHANGED <<ds, tempDir, consignmentDir, mediaDir>>

\* POST /ack / POST /nack from the arrival to the findOne.
RestAckBegin(r, op, key) ==
  LET q == Handling(op, key, Absent, NoFile) IN
  /\ CanAccept(r)
  /\ IF Falsy(key)
     THEN /\ response' = Rest(r, q, 400, JsFalse, "blindedutxo missing!")
          /\ req' = req
     ELSE /\ req' = [req EXCEPT ![r] =
                       [q EXCEPT !.pc = "found",
                                 !.prev = Only(findOne(ds, "blindedutxo", key),
                                               {"responded"})]]
          /\ response' = NoResponse
  /\ UNCHANGED <<ds, tempDir, consignmentDir, mediaDir>>

\* POST /ack and POST /nack without the test of responded.
RestAckAfterFind_NoRespondedCheck(r, notFound) ==
  LET q == req[r] IN
  /\ IF q.prev = <<>> THEN
       /\ response' = Rest(r, q, 404, JsFalse, notFound)
       /\ req' = [req EXCEPT ![r] = Idle]
     ELSE
       /\ response' = NoResponse
       /\ req' = [req EXCEPT ![r] = [q EXCEPT !.pc = "update"]]
  /\ UNCHANGED <<ds, tempDir, consignmentDir, mediaDir>>

\* After findOne: 404, 403 when the document read has responded, or on to
\* the update.
RestAckAfterFind(r, notFound) ==
  LET q == req[r] IN
  /\ IF q.prev = <<>> THEN
       /\ response' = Rest(r, q, 404, JsFalse, notFound)
       /\ req' = [req EXCEPT ![r] = Idle]
     ELSE IF Truthy(q.prev[1].responded) = JsTrue THEN
       /\ response' = Rest(r, q, 403, JsFalse, "Already responded!")
       /\ req' = [req EXCEPT ![r] = Idle]
     ELSE
       /\ response' = NoResponse
       /\ req' = [req EXCEPT ![r] = [q EXCEPT !.pc = "update"]]
  /\ UNCHANGED <<ds, tempDir, consignmentDir, mediaDir>>

RestAckPostBegin(r, key) == RestAckBegin(r, "POST /ack", key)

RestAckPostAfterFind(r) ==
  /\ req[r].op = "POST /ack" /\ req[r].pc = "found"
  /\ RestAckAfterFind(r, "No consignment found!")

\* The update of POST /ack, and its 200.
RestAckPostUpdate(r) ==
  LET q == req[r] IN
  /\ q.op = "POST /ack" /\ q.pc = "update"
  /\ ds' = update(ds, "blindedutxo", q.key, JsTrue, JsFalse, JsTrue)
  /\ response' = Rest(r, q, 200, JsTrue, "")
  /\ req' = [req EXCEPT ![r] = Idle]
  /\ UNCHANGED <<tempDir, consignmentDir, mediaDir>>

RestNackPostBegin(r, key) == RestAckBegin(r, "POST /nack", key)

RestNackPostAfterFind(r) ==
  /\ req[r].op = "POST /nack" /\ req[r].pc = "found"
  /\ RestAckAfterFind(r, "")

\* The update of POST /nack, the findOne behind it (its result is not used),
\* and the 200.
RestNackPostUpdate(r) ==
  LET q == req[r] IN
  /\ q.op = "POST /nack" /\ q.pc = "update"
  /\ ds' = update(ds, "blindedutxo", q.key, JsFalse, JsTrue, JsTrue)
  /\ response' = Rest(r, q, 200, JsTrue, "")
  /\ req' = [req EXCEPT ![r] = Idle]
  /\ UNCHANGED <<tempDir, consignmentDir, mediaDir>>

\* GET /getinfo: res.status(200).send({version, uptime}); the body has no
\* success field.
RestGetInfo(r) ==
  /\ CanAccept(r)
  /\ response' = [Reply(r, Handling("GET /getinfo", Absent, Absent, NoFile)) EXCEPT
                    !.status = 200, !.result = "info"]
  /\ UNCHANGED <<ds, tempDir, consignmentDir, mediaDir, req>>

\* ------------------------------------------------------------- the server
\* Arrivals, by family of operations, with the keys and file parts drawn from
\* the given sets; gate says when the clients may send one.
BeginUpload(gate, rpcKeys, restKeys, parts) ==
  \/ \E r \in Slots, key \in rpcKeys, part \in parts :
       gate /\ ConsignmentPostBegin(r, key, part)
  \/ \E r \in Slots, key \in rpcKeys, part \in parts :
       gate /\ MediaPostBegin(r, key, part)
  \/ \E r \in Slots, key \in restKeys, part \in parts :
       gate /\ RestConsignmentPostBegin(r, key, part)
  \/ \E r \in Slots, key \in restKeys, part \in parts :
       gate /\ RestMediaPostBegin(r, key, part)

BeginFetch(gate, rpcKeys, restKeys) ==
  \/ \E r \in Slots, key \in rpcKeys : gate /\ ConsignmentGetBegin(r, key)
  \/ \E r \in Slots, key \in rpcKeys : gate /\ MediaGetBegin(r, key)
  \/ \E r \in Slots, key \in restKeys : gate /\ RestConsignmentGetBegin(r, key)
  \/ \E r \in Slots, key \in restKeys : gate /\ RestMediaGetBegin(r, key)

BeginAckSet(gate, rpcKeys, restKeys, acks) ==
  \/ \E r \in Slots, key \in rpcKeys, ack \in acks : gate /\ AckPostBegin(r, key, ack)
  \/ \E r \in Slots, key \in restKeys : gate /\ RestAckPostBegin(r, key)
  \/ \E r \in Slots, key \in restKeys : gate /\ RestNackPostBegin(r, key)

BeginAckGet(gate, rpcKeys, restKeys) ==
  \/ \E r \in Slots, key \in rpcKeys : gate /\ AckGetBegin(r, key)
  \/ \E r \in Slots, key \in restKeys : gate /\ RestAckGetBegin(r, key)

\* The later segments of the handlers.
ContinueUpload ==
  \/ \E r \in Slots : ConsignmentPostAfterFind(r)
  \/ \E r \in Slots : ConsignmentPostInsert(r)
  \/ \E r \in Slots : MediaPostAfterFind(r)
  \/ \E r \in Slots : MediaPostInsert(r)
  \/ \E r \in Slots : RestConsignmentPostAfterFind(r)
  \/ \E r \in Slots : RestConsignmentPostInsert(r)
  \/ \E r \in Slots : RestMediaPostAfterFind(r)
  \/ \E r \in Slots : RestMediaPostInsert(r)

ContinueFetch ==
  \/ \E r \in Slots : ConsignmentGetAfterFind(r)
  \/ \E r \in Slots : MediaGetAfterFind(r)
  \/ \E r \in Slots : RestConsignmentGetAfterFind(r)
  \/ \E r \in Slots : RestMediaGetAfterFind(r)

ContinueAck ==
  \/ \E r \in Slots : AckGetAfterFind(r)
  \/ \E r \in Slots : RestAckGetAfterFind(r)
  \/ \E r \in Slots : AckPostAfterFind(r)
  \/ \E r \in Slots : AckPostUpdate(r)
  \/ \E r \in Slots : RestAckPostAfterFind(r)
  \/ \E r \in Slots : RestAckPostUpdate(r)
  \/ \E r \in Slots : RestNackPostAfterFind(r)
  \/ \E r \in Slots : RestNackPostUpdate(r)

\* No request is in flight.
Quiet == \A s \in Slots : req[s].pc = "idle"

\* The server: any request at any time.
Next ==
  \/ BeginUpload(TRUE, Keys \cup BadRpcKeys, Keys \cup BadRestKeys, FileParts)
  \/ BeginFetch(TRUE, RpcKeyParams, AskKeys)
  \/ BeginAckSet(TRUE, RpcKeyParams, RestKeyParams, AckParams)
  \/ BeginAckGet(TRUE, RpcKeyParams, AskKeys)
  \/ ContinueUpload
  \/ ContinueFetch
  \/ ContinueAck
  \/ \E r \in Slots : RestGetInfo(r)

Spec == Init /\ [][Next]_vars

\* The server with its clients taking turns: a request arrives only when no
\* other one is in flight.
NextSeq ==
  \/ BeginUpload(Quiet, Keys \cup BadRpcKeys, Keys \cup BadRestKeys, FileParts)
  \/ BeginFetch(Quiet, RpcKeyParams, AskKeys)
  \/ BeginAckSet(Quiet, RpcKeyParams, RestKeyParams, AckParams)
  \/ BeginAckGet(Quiet, RpcKeyParams, AskKeys)
  \/ ContinueUpload
  \/ ContinueFetch
  \/ ContinueAck
  \/ \E r \in Slots : Quiet /\ RestGetInfo(r)

SpecSeq == Init /\ [][NextSeq]_vars

\* File parts that carry a payload.
Payloads == FileParts \ {NoPart}

\* The uploads and the fetches, with any number of them in flight.  A request
\* that is refused before its first await (a bad key, no file) shares nothing
\* with the requests in flight; the clients send those when none is.
NextUpload ==
  \/ BeginUpload(TRUE, Keys, Keys, Payloads)
  \/ BeginUpload(Quiet, BadRpcKeys, BadRestKeys, FileParts)
  \/ BeginUpload(Quiet, Keys, Keys, {NoPart})
  \/ BeginFetch(TRUE, AskKeys, AskKeys)
  \/ BeginFetch(Quiet, BadRpcKeys, {})
  \/ ContinueUpload
  \/ ContinueFetch

SpecUpload == Init /\ [][NextUpload]_vars

\* The acknowledgments, with any number of them in flight, on consignments
\* that consignment.post uploads.
NextAck ==
  \/ \E r \in Slots, key \in Keys, part \in Payloads : ConsignmentPostBegin(r, key, part)
  \/ \E r \in Slots : ConsignmentPostAfterFind(r)
  \/ \E r \in Slots : ConsignmentPostInsert(r)
  \/ BeginAckSet(TRUE, AskKeys, AskKeys, AckParams)
  \/ BeginAckSet(Quiet, BadRpcKeys, BadRestKeys, AckParams)
  \/ BeginAckGet(TRUE, AskKeys, AskKeys)
  \/ BeginAckGet(Quiet, BadRpcKeys, {})
  \/ ContinueAck

SpecAck == Init /\ [][NextAck]_vars

\* The uploads alone, in flight together in any interleaving.
NextPost ==
  \/ BeginUpload(TRUE, Keys, Keys, Payloads)
  \/ ContinueUpload

SpecPost == Init /\ [][NextPost]_vars

\* The uploads and the ack setters under two keys and in both namespaces: the
\* uploads in flight together in any interleaving, an ack setter sent when no
\* request is in flight and in flight together with the uploads sent after it.
NextFrame ==
  \/ BeginUpload(TRUE, AskKeys, AskKeys, Payloads)
  \/ BeginAckSet(Quiet, AskKeys, AskKeys, {JsTrue, JsFalse})
  \/ ContinueUpload
  \/ \E r \in Slots : AckPostAfterFind(r)
  \/ \E r \in Slots : AckPostUpdate(r)
  \/ \E r \in Slots : RestAckPostAfterFind(r)
  \/ \E r \in Slots : RestAckPostUpdate(r)
  \/ \E r \in Slots : RestNackPostAfterFind(r)
  \/ \E r \in Slots : RestNackPostUpdate(r)

SpecFrame == Init /\ [][NextFrame]_vars

\* ------------------------------------------------------------- properties
\* The consignment document findOne gives for a key, <<>> when there is none.
StoredIn(store, k) == findOne(store, "blindedutxo", k)

\* The ack ack.get reports for a key ("none" when it has no consignment).
AckIn(store, k) ==
  IF StoredIn(store, k) = <<>> THEN "none" ELSE StoredIn(store, k)[1].ack

RespondedIn(store, k) ==
  IF StoredIn(store, k) = <<>> THEN "none" ELSE StoredIn(store, k)[1].responded

DecidedIn(store, k) == AckIn(store, k) \in {JsTrue, JsFalse}

\* This step is one of request r, and this step ends it.
StepOf(r) == req'[r] # req[r]

Ends(r) == req[r].pc # "idle" /\ req'[r].pc = "idle"

\* C1: once the stored ack of a key is true or false, no step of any request
\* changes it.
C1_AckNeverChanges ==
  [][\A k \in Keys : DecidedIn(ds, k) => AckIn(ds', k) = AckIn(ds, k)]_vars

\* C2: with the calls taking turns, no step of an ack.post call changes a
\* decided ack; the call that finds the ack undecided stores its value and
\* returns true; a later call with the other value ends with CannotChangeAck
\* and one with the same value returns false, the datastore left as it is.
C2_AckPostKeepsFirst ==
  [][\A r \in Slots :
       (StepOf(r) /\ req[r].op = "ack.post" /\ getAckParam(req[r].ack) = "") =>
         LET k == req[r].key
             v == req[r].ack
         IN /\ DecidedIn(ds, k) => AckIn(ds', k) = AckIn(ds, k)
            /\ (Ends(r) /\ DecidedIn(ds, k) /\ AckIn(ds, k) # v) =>
                 (response'.error = "CannotChangeAck" /\ ds' = ds)
            /\ (Ends(r) /\ DecidedIn(ds, k) /\ AckIn(ds, k) = v) =>
                 (response'.result = JsFalse /\ response'.error = "" /\ ds' = ds)
            /\ (Ends(r) /\ AckIn(ds, k) = Undefined) =>
                 (response'.result = JsTrue /\ AckIn(ds', k) = v)]_vars

\* An ack.post has just been refused with CannotChangeAck, the ack as it was.
C2_Witness ==
  /\ response.op = "ack.post"
  /\ response.error = "CannotChangeAck"
  /\ DecidedIn(ds, response.key)
  /\ AckIn(ds, response.key) # response.param

\* C8: with the calls taking turns, the POST /ack and POST /nack calls on a
\* consignment mark it responded with the first of them, which answers 200;
\* it stays responded, and every later call to either route answers 403
\* "Already responded!" and leaves the datastore as it is.
C8_LegacyFirstOnly ==
  [][/\ \A k \in Keys :
          /\ RespondedIn(ds, k) = JsTrue => RespondedIn(ds', k) = JsTrue
          /\ (RespondedIn(ds, k) # JsTrue /\ RespondedIn(ds', k) = JsTrue) =>
               (response'.op \in {"POST /ack", "POST /nack"} /\ response'.key = k
                  /\ response'.status = 200)
     /\ \A r \in Slots :
          (Ends(r) /\ req[r].op \in {"POST /ack", "POST /nack"}
             /\ StoredIn(ds, req[r].key) # <<>>) =>
            IF RespondedIn(ds, req[r].key) = JsTrue
            THEN /\ response'.status = 403
                 /\ response'.error = "Already responded!"
                 /\ ds' = ds
            ELSE /\ response'.status = 200
                 /\ response'.success = JsTrue
                 /\ RespondedIn(ds', req[r].key) = JsTrue]_vars

\* A legacy call has just been refused on a consignment that had responded.
C8_Witness ==
  /\ response.op \in {"POST /ack", "POST /nack"}
  /\ response.status = 403
  /\ response.error = "Already responded!"
  /\ RespondedIn(ds, response.key) = JsTrue

\* The field an upload or fetch looks its key up by, and the directory of its blobs.
KeyField(op) ==
  IF op \in {"consignment.post", "POST /consignment", "consignment.get", "GET /consignment"}
  THEN "blindedutxo" ELSE "attachment_id"

BlobsOf(op, consignments, media) ==
  IF KeyField(op) = "blindedutxo" THEN consignments ELSE media

\* The hashes recorded for a key.
Recorded(store, field, k) == {store[i].filename : i \in Matches(store, field, k)}

\* C3: there is never more than one consignment document per blinded UTXO,
\* nor more than one media document per attachment ID.
C3_OneRecordPerKey ==
  \A k \in Keys :
    /\ Cardinality(Matches(ds, "blindedutxo", k)) <= 1
    /\ Cardinality(Matches(ds, "attachment_id", k)) <= 1

\* C4: when a JSON-RPC upload reports created (true), its key has no document
\* of another content: an upload of other content under the key, in flight
\* with it, was not created too.
C4_OneUploadCreated ==
  [][\A r \in Slots :
       (Ends(r) /\ req[r].op \in RpcUploadOps /\ req[r].pc = "insert") =>
         /\ response'.result = JsTrue
         /\ Recorded(ds', KeyField(req[r].op), req[r].key) = {req[r].fileHash}]_vars

\* The value an ack-setting request writes, and a request about to write.
SetterValue(q) ==
  IF q.op = "ack.post" THEN q.ack ELSE IF q.op = "POST /ack" THEN JsTrue ELSE JsFalse

Writing(r) ==
  req[r].op \in {"ack.post", "POST /ack", "POST /nack"} /\ req[r].pc = "update"

\* C5: two ack-setting requests with opposite values on one key are never
\* both past their check of the document and about to write.
C5_OneSetterWrites ==
  \A r1, r2 \in Slots :
    (r1 # r2 /\ Writing(r1) /\ Writing(r2) /\ req[r1].key = req[r2].key) =>
      SetterValue(req[r1]) = SetterValue(req[r2])

\* C6: an upload under a key whose recorded hash differs from the hash of the
\* uploaded file reads that document, and ends with CannotChangeUploadedFile
\* (JSON-RPC) or 403 (REST), the datastore and the committed blobs as they were.
C6_DifferentContentRefused ==
  [][\A r \in Slots :
       /\ (req[r].pc = "idle" /\ req'[r].pc = "found" /\ req'[r].op \in UploadOps
             /\ Recorded(ds, KeyField(req'[r].op), req'[r].key) # {}) =>
            /\ req'[r].prev # <<>>
            /\ req'[r].prev[1].filename
                 \in Recorded(ds, KeyField(req'[r].op), req'[r].key)
       /\ (StepOf(r) /\ req[r].pc = "found" /\ req[r].op \in UploadOps
             /\ req[r].prev # <<>> /\ req[r].prev[1].filename # req[r].fileHash) =>
            /\ Ends(r)
            /\ IF req[r].op \in RpcUploadOps
               THEN response'.error = "CannotChangeUploadedFile" /\ response'.result = ""
               ELSE response'.status = 403 /\ response'.success = JsFalse
            /\ ds' = ds
            /\ consignmentDir' = consignmentDir
            /\ mediaDir' = mediaDir]_vars

\* An upload has just been refused as a change of the uploaded file, and the
\* document of its key and the blob of that document are there.
C6_Witness ==
  /\ response.op \in UploadOps
  /\ response.error \in {"CannotChangeUploadedFile", "Cannot change uploaded file!"}
  /\ \E h \in Recorded(ds, KeyField(response.op), response.key) :
       existsSync(BlobsOf(response.op, consignmentDir, mediaDir), h)

\* C7: with the calls taking turns, a JSON-RPC upload under a key without a
\* document returns true and leaves one document for the key and the blob of
\* its content; an upload of the same bytes under the key again returns
\* false without an error and leaves the one document and the blobs as they were.
C7_SameContentTwice ==
  [][\A r \in Slots :
       (Ends(r) /\ req[r].op \in RpcUploadOps) =>
         LET op == req[r].op
             k == req[r].key
             h == req[r].fileHash
         IN /\ Recorded(ds, KeyField(op), k) = {} =>
                 /\ response'.result = JsTrue /\ response'.error = ""
                 /\ Cardinality(Matches(ds', KeyField(op), k)) = 1
                 /\ Recorded(ds', KeyField(op), k) = {h}
                 /\ existsSync(BlobsOf(op, consignmentDir', mediaDir'), h)
                 /\ genHashFromFile(BlobsOf(op, consignmentDir', mediaDir')[h]) = h
            /\ Recorded(ds, KeyField(op), k) = {h} =>
                 /\ response'.result = JsFalse /\ response'.error = ""
                 /\ ds' = ds
                 /\ consignmentDir' = consignmentDir /\ mediaDir' = mediaDir
                 /\ Cardinality(Matches(ds', KeyField(op), k)) = 1
                 /\ existsSync(BlobsOf(op, consignmentDir', mediaDir'), h)]_vars

\* The second upload of the same bytes has just returned false.
C7_Witness ==
  /\ response.op \in RpcUploadOps
  /\ response.result = JsFalse
  /\ response.error = ""
  /\ Cardinality(Matches(ds, KeyField(response.op), response.key)) = 1

\* What a client makes of the base64 string of a response.
RECURSIVE fromBase64(_)
fromBase64(s) ==
  IF Len(s) < 4 THEN <<>>
  ELSE IF s[3] = Pad THEN <<s[1] * 4 + (s[2] \div 16)>>
  ELSE IF s[4] = Pad THEN
    <<s[1] * 4 + (s[2] \div 16), (s[2] % 16) * 16 + (s[3] \div 4)>>
  ELSE
    <<s[1] * 4 + (s[2] \div 16), (s[2] % 16) * 16 + (s[3] \div 4), (s[3] % 4) * 64 + s[4]>>
      \o fromBase64(SubSeq(s, 5, Len(s)))

FetchOps == {"consignment.get", "media.get", "GET /consignment", "GET /media"}

NotFoundOf(op) ==
  IF op = "consignment.get" THEN "NotFoundConsignment"
  ELSE IF op = "media.get" THEN "NotFoundMedia"
  ELSE IF op = "GET /consignment" THEN "No consignment found!"
  ELSE "No media found!"

\* C9: a fetch under a key reads the document of every upload that was
\* created under the key (each document of the key is one) and returns the
\* bytes of its content; a fetch under a key without a document ends with the
\* not-found error.
C9_FetchReturnsUpload ==
  [][\A r \in Slots :
       /\ (req[r].pc = "idle" /\ req'[r].pc = "found" /\ req'[r].op \in FetchOps) =>
            LET found == Recorded(ds, KeyField(req'[r].op), req'[r].key)
            IN /\ found = {} => req'[r].prev = <<>>
               /\ \A h \in found :
                    req'[r].prev # <<>> /\ req'[r].prev[1].filename = h
       /\ (Ends(r) /\ req[r].op \in FetchOps) =>
            IF req[r].prev = <<>>
            THEN response'.error = NotFoundOf(req[r].op) /\ response'.data = <<>>
            ELSE /\ response'.error = ""
                 /\ fromBase64(response'.data) \in Contents
                 /\ genHashFromFile(fromBase64(response'.data))
                      = req[r].prev[1].filename]_vars

\* C10: a consignment.post without blinded_utxo ends with MissingBlindedUTXO;
\* the datastore and the committed blobs are as they were, and so is the
\* staging directory: the file staged for the call is not in it.
C10_MissingKeyLeavesNothing ==
  [][(response'.op = "consignment.post" /\ response'.key = Absent) =>
       /\ response'.error = "MissingBlindedUTXO"
       /\ response'.result = ""
       /\ ds' = ds
       /\ consignmentDir' = consignmentDir
       /\ mediaDir' = mediaDir
       /\ tempDir' = tempDir
       /\ ~existsSync(tempDir', response'.file)]_vars

\* A consignment.post that came with a file and without blinded_utxo has just
\* been refused.
C10_Witness ==
  /\ response.op = "consignment.post"
  /\ response.key = Absent
  /\ response.file # NoFile
  /\ response.error = "MissingBlindedUTXO"
  /\ ~existsSync(tempDir, response.file)

\* C11: whenever no request is in flight the staging directory is empty: the
\* file staged for an upload is gone when the upload has ended.
C11_StagingEmptyWhenQuiet == Quiet => tempDir = EmptyDir

\* The consignment documents of the datastore.
ConsignmentDocs(store) == {i \in 1..Len(store) : store[i].blindedutxo # Undefined}

\* C12: in every consignment document responded is true exactly when ack is
\* true or false, and nack is true exactly when ack is false.
C12_LegacyFieldsMirrorAck ==
  \A i \in ConsignmentDocs(ds) :
    /\ (ds[i].responded = JsTrue) <=> (ds[i].ack \in {JsTrue, JsFalse})
    /\ (ds[i].nack = JsTrue) <=> (ds[i].ack = JsFalse)

\* The hash a fetch of a key resolves to: <<>> without a document, else <<hash>>.
ResolvesTo(store, field, k) ==
  IF findOne(store, field, k) = <<>> THEN <<>>
  ELSE <<findOne(store, field, k)[1].filename>>

\* C13: once a key resolves to a content, no step changes the content it
\* resolves to, in either namespace.
C13_ContentRefStable ==
  [][\A k \in Keys, field \in {"blindedutxo", "attachment_id"} :
       ResolvesTo(ds, field, k) # <<>> =>
         ResolvesTo(ds', field, k) = ResolvesTo(ds, field, k)]_vars

\* C14: an ack.post whose blinded_utxo is valid and whose ack is missing or not
\* a boolean ends with MissingAck or InvalidAck, whatever the datastore holds.
C14_ValidationBeforeStore ==
  [][\A r \in Slots :
       (Ends(r) /\ req[r].op = "ack.post" /\ getAckParam(req[r].ack) # "") =>
         response'.error = getAckParam(req[r].ack)]_vars

\* C15: every response of a REST route has a success field that is true or
\* false; it is true exactly with status 200, and the status is 400 exactly
\* when the key or the file of the request is missing, else 200, 403, 404 or 500.
C15_RestEnvelope ==
  [][response'.op \in RestOps =>
       /\ response'.success \in {JsTrue, JsFalse}
       /\ response'.status \in {200, 400, 403, 404, 500}
       /\ (response'.success = JsTrue) <=> (response'.status = 200)
       /\ (response'.status = 400) <=>
            (\/ Falsy(response'.key)
             \/ response'.op \in RestUploadOps /\ response'.file = NoFile)]_vars

\* C16: with the calls taking turns, an ack.post with a boolean ack on an
\* existing consignment ends by the ack the document holds then, whichever
\* route wrote it: undefined, the value is stored and the result is true;
\* the same value, the result is false and nothing is written; the other
\* value, the error is CannotChangeAck and nothing is written.
C16_AckPostTransitionTable ==
  [][\A r \in Slots :
       (Ends(r) /\ req[r].op = "ack.post" /\ req[r].ack \in {JsTrue, JsFalse}
          /\ StoredIn(ds, req[r].key) # <<>>) =>
         LET s == AckIn(ds, req[r].key)
             v == req[r].ack
         IN IF s = Undefined
            THEN /\ response'.result = JsTrue /\ response'.error = ""
                 /\ ds' = update(ds, "blindedutxo", req[r].key, v, Keep, Keep)
            ELSE IF s = v
            THEN response'.result = JsFalse /\ response'.error = "" /\ ds' = ds
            ELSE /\ response'.error = "CannotChangeAck" /\ response'.result = ""
                 /\ ds' = ds]_vars

\* An ack.post has just been refused on a consignment that POST /ack or
\* POST /nack decided.
C16_Witness ==
  /\ response.op = "ack.post"
  /\ response.error = "CannotChangeAck"
  /\ RespondedIn(ds, response.key) = JsTrue
  /\ AckIn(ds, response.key) \in {JsTrue, JsFalse}
  /\ AckIn(ds, response.key) # response.param

\* The document an upload inserts, and the three outcomes of an upload as each
\* surface reports them.
DocOf(op, fileHash, k) ==
  IF KeyField(op) = "blindedutxo" THEN Consignment(fileHash, k) ELSE Media(fileHash, k)

ReportsCreated(op, resp) ==
  IF op \in RpcUploadOps THEN resp.result = JsTrue /\ resp.error = ""
  ELSE resp.status = 200 /\ resp.success = JsTrue

ReportsSame(op, resp) ==
  IF op \in RpcUploadOps THEN resp.result = JsFalse /\ resp.error = ""
  ELSE resp.status = 200 /\ resp.success = JsTrue

ReportsConflict(op, resp) ==
  IF op \in RpcUploadOps THEN resp.error = "CannotChangeUploadedFile" /\ resp.result = ""
  ELSE resp.status = 403 /\ resp.success = JsFalse

\* C17: with the calls taking turns, an upload does to the documents and to the
\* committed blobs what its key, its namespace and its content decide, the
\* same on both surfaces.  Under a key without a document the staged bytes
\* become the blob named by their hash, then the document is inserted and
\* created is reported; under a key with the same hash nothing changes and
\* the same-content outcome is reported; under a key with another hash
\* nothing changes and the conflict is reported.
C17_SurfacesAgree ==
  [][\A r \in Slots :
       (StepOf(r) /\ req[r].op \in UploadOps) =>
         LET op == req[r].op
             k == req[r].key
             h == req[r].fileHash
             blobs == BlobsOf(op, consignmentDir, mediaDir)
             others == BlobsOf(op, mediaDir, consignmentDir)
             blobsNext == BlobsOf(op, consignmentDir', mediaDir')
             othersNext == BlobsOf(op, mediaDir', consignmentDir')
         IN IF req[r].pc = "insert"
            THEN /\ ds' \in insert(ds, DocOf(op, h, k))
                 /\ blobsNext = blobs /\ othersNext = others
                 /\ Ends(r) /\ ReportsCreated(op, response')
            ELSE IF Recorded(ds, KeyField(op), k) = {}
            THEN /\ ds' = ds
                 /\ blobsNext = WriteFile(blobs, h, tempDir[req[r].file])
                 /\ genHashFromFile(blobsNext[h]) = h
                 /\ othersNext = others
                 /\ req'[r].pc = "insert"
            ELSE /\ ds' = ds
                 /\ blobsNext = blobs /\ othersNext = others
                 /\ Ends(r)
                 /\ IF h \in Recorded(ds, KeyField(op), k)
                    THEN ReportsSame(op, response')
                    ELSE ReportsConflict(op, response')]_vars

\* A REST upload has just been refused under a key whose document a JSON-RPC
\* or REST upload of other content created.
C17_Witness ==
  /\ response.op \in RestUploadOps
  /\ response.status = 403
  /\ Recorded(ds, KeyField(response.op), response.key) # {}
  /\ \A h \in Recorded(ds, KeyField(response.op), response.key) :
       existsSync(BlobsOf(response.op, consignmentDir, mediaDir), h)

\* C18: the filename of every document names a blob of the committed directory
\* of its namespace, and no fetch ends for want of the blob (ENOENT on
\* JSON-RPC, 500 on REST).
C18_RecordHasBlob ==
  /\ \A i \in 1..Len(ds) :
       IF ds[i].blindedutxo # Undefined
       THEN existsSync(consignmentDir, ds[i].filename)
       ELSE existsSync(mediaDir, ds[i].filename)
  /\ response.op \in FetchOps => (response.error # "ENOENT" /\ response.status # 500)

\* A fetch has just returned a blob while an upload is between its rename and
\* its insert.
C18_Witness ==
  /\ response.op \in FetchOps
  /\ response.data # <<>>
  /\ \E s \in Slots : req[s].op \in UploadOps /\ req[s].pc = "insert"

AckSetOps == {"ack.post", "POST /ack", "POST /nack"}

\* The field an upload or an ack setter selects its documents by.
FieldOf(op) == IF op \in AckSetOps THEN "blindedutxo" ELSE KeyField(op)

\* The documents a query {field: k} does not select, in their order.
Others(store, field, k) == SelectSeq(store, LAMBDA d : d[field] # k)

\* C19: a step of an upload or of an ack setter with key k leaves every
\* document its query {field: k} does not select as it was: the documents
\* of the other keys and all the documents of the other namespace, those
\* with the same key string among them.
C19_OtherRecordsUntouched ==
  [][\A r \in Slots :
       StepOf(r) =>
         LET q == IF req[r].pc = "idle" THEN req'[r] ELSE req[r]
         IN q.op \in UploadOps \cup AckSetOps =>
              Others(ds', FieldOf(q.op), q.key) = Others(ds, FieldOf(q.op), q.key)]_vars

\* An ack setter has just written the consignment of a key under which a
\* media document is stored too, unmarked.
C19_Witness ==
  /\ response.op \in AckSetOps
  /\ response.status = 200 /\ response.error = ""
  /\ DecidedIn(ds, response.key)
  /\ \E i \in Matches(ds, "attachment_id", response.key) :
       ds[i].ack = Undefined /\ ds[i].responded = Undefined

QueryOps == FetchOps \cup {"ack.get", "GET /ack"}

\* C20: a step of consignment.get, media.get, ack.get, GET /consignment,
\* GET /media or GET /ack, whether it is refused, looks the key up, ends with
\* not-found or returns a result, leaves the datastore and both committed
\* directories as they were.
C20_QueriesArePure ==
  [][(\/ response'.op \in QueryOps
      \/ \E r \in Slots :
           StepOf(r) /\ (req[r].op \in QueryOps \/ req'[r].op \in QueryOps)) =>
       /\ ds' = ds
       /\ consignmentDir' = consignmentDir
       /\ mediaDir' = mediaDir]_vars

\* A query has just returned the blob or the ack of a document that is
\* still there with its blob.
C20_Witness ==
  /\ response.op \in QueryOps
  /\ response.error = ""
  /\ response.status = 200
  /\ \E i \in 1..Len(ds) :
       /\ ds[i][IF response.op \in FetchOps THEN KeyField(response.op) ELSE "blindedutxo"]
            = response.key
       /\ existsSync(IF ds[i].blindedutxo # Undefined THEN consignmentDir ELSE mediaDir,
                     ds[i].filename)

====
